---- MODULE Spec2Model ----
(***************************************************************************)
(* A model of draping (src/draping/draping.py): decorate, redecorate and   *)
(* undecorate patch the attribute slot of a function or method while the   *)
(* program runs.  The state is the live object graph the code walks: each  *)
(* slot holds a function or a staticmethod/classmethod object, and every   *)
(* function carries the attributes the code reads (__wrapped__,            *)
(* _applied_decorator, __qualname__) and the behaviour of a call.          *)
(*                                                                         *)
(* Python semantics assumed: CPython 3.10 or later, where staticmethod and *)
(* classmethod objects expose __wrapped__, __name__ and __qualname__ and   *)
(* staticmethod objects are callable.                                      *)
(***************************************************************************)
EXTENDS Integers, Sequences, FiniteSets, TLC

(***************************************************************************)
(* Bounds of the model.                                                    *)
(***************************************************************************)
\* calls made one after the other by a single caller (Spec)
MaxCalls == 3
\* calls made one after the other when only decorate and undecorate are
\* used (PatchSpec)
MaxPatchCalls == 3
\* calls made one after the other on targets that always resolve, with
\* decorators that never fail (ChainSpec)
MaxChainCalls == 4
\* calls made one after the other through bound methods of instances
\* (InstanceSpec)
MaxInstanceCalls == 3
\* caller threads and the calls they make between them (ThreadSpec)
NumThreads == 2
ThreadCalls == 2
\* calls of one caller and the targets of a call (BatchSpec)
BatchCalls == 2
MaxBatch == 2
\* threads that each apply a transformer of their own (ApplySpec)
NumAppliers == 2
\* calls made by the threads whose decorators may return their argument
IdentityCalls == 3

Threads == 1..(IF NumThreads > NumAppliers THEN NumThreads ELSE NumAppliers)

(***************************************************************************)
(* The universe: three attribute slots, one per binding shape, and the     *)
(* transformers (decorators) the callers pass.  A and B are written with   *)
(* functools.wraps; P returns a bare closure; X raises when it is applied; *)
(* I returns its argument unchanged.                                       *)
(***************************************************************************)
Slots == {"F", "SM", "CM"}
Wrapping == {"A", "B", "P"}
Transformers == Wrapping \cup {"X"}
Returning == {"I"}
NoTag == "None"
Locals == "<locals>"
NotCallable == "!"

SlotShape(s) == CASE s = "F" -> "plain" [] s = "SM" -> "static" [] s = "CM" -> "class"

TransformerKind(d) ==
  CASE d \in {"A", "B"} -> "wraps" [] d = "P" -> "bare" [] d = "X" -> "raises"
    [] d \in Returning -> "returns"

(***************************************************************************)
(* Objects.  None is Python's None.  A function records _applied_decorator *)
(* (tag), __wrapped__ (wrapped), the slot its __qualname__ names (qual, or *)
(* Locals for a closure defined inside a decorator) and what a call does   *)
(* (eff: the transformers applied to the original's result, innermost      *)
(* first).  A descriptor is a staticmethod or classmethod object.  Itself  *)
(* in the wrapped field says that o.__wrapped__ is o.                      *)
(***************************************************************************)
None == [kind |-> "none"]

Itself == [kind |-> "itself"]

Fn(tag, wrapped, qual, eff) ==
  [kind |-> "function", tag |-> tag, wrapped |-> wrapped, qual |-> qual, eff |-> eff]

Desc(k, func) == [kind |-> k, func |-> func]

IsDesc(o) == o.kind \in {"static", "class"}

OriginalFunc(s) == Fn(NoTag, None, s, <<>>)

Rewrap(shape, func) == IF shape = "plain" THEN func ELSE Desc(shape, func)

InitialAttr(s) == Rewrap(SlotShape(s), OriginalFunc(s))

\* getattr(o, '__wrapped__', None)
WrappedOf(o) ==
  IF o.kind = "function" THEN (IF o.wrapped = Itself THEN o ELSE o.wrapped)
  ELSE IF IsDesc(o) THEN o.func
  ELSE None

\* getattr(o, '_applied_decorator', None)
TagOf(o) == IF o.kind = "function" THEN o.tag ELSE NoTag

\* the slot o.__qualname__ names; a descriptor copies it from what it wraps
RECURSIVE QualOf(_)
QualOf(o) == IF o.kind = "function" THEN o.qual ELSE QualOf(o.func)

\* what calling o does: a staticmethod object forwards the call, a
\* classmethod object is not callable
RECURSIVE CallOf(_)
CallOf(o) ==
  IF o.kind = "function" THEN o.eff
  ELSE IF o.kind = "static" THEN CallOf(o.func)
  ELSE <<NotCallable>>

(***************************************************************************)
(* Calling a transformer on x.  functools.wraps copies __qualname__ and    *)
(* the entries of x.__dict__ (so x's _applied_decorator, when x is a       *)
(* tagged function) onto the new closure and sets __wrapped__ to x.        *)
(***************************************************************************)
Raised == [kind |-> "raised"]

Append1(s, e) == s \o <<e>>

Reverse(s) == [i \in 1..Len(s) |-> s[Len(s) + 1 - i]]

\* functools.update_wrapper(w, x)
UpdateWrapper(w, x) ==
  [w EXCEPT !.qual = QualOf(x),
            !.tag = IF TagOf(x) # NoTag THEN TagOf(x) ELSE w.tag,
            !.wrapped = x]

\* the closure a transformer returns before any attribute is copied onto it;
\* calling it calls x first, so it fails where calling x fails
Closure(d, x) ==
  Fn(NoTag, None, Locals,
     IF CallOf(x) = <<NotCallable>> THEN <<NotCallable>> ELSE Append1(CallOf(x), d))

\* d(x)
CallTransformer(d, x) ==
  CASE TransformerKind(d) = "wraps" -> UpdateWrapper(Closure(d, x), x)
    [] TransformerKind(d) = "bare" -> Closure(d, x)
    [] TransformerKind(d) = "raises" -> Raised
    [] TransformerKind(d) = "returns" -> x

(***************************************************************************)
(* The chain walk shared by the three operations:                          *)
(*   while current: chain.append(current); current = current.__wrapped__   *)
(* The walk never ends on a chain that reaches a function whose            *)
(* __wrapped__ is the function itself.                                     *)
(***************************************************************************)
RECURSIVE Endless(_)
Endless(o) ==
  IF o.kind = "function" THEN o.wrapped = Itself \/ Endless(o.wrapped)
  ELSE IF IsDesc(o) THEN Endless(o.func)
  ELSE FALSE

RECURSIVE ChainFrom(_)
ChainFrom(o) == IF o.kind = "none" THEN <<>> ELSE <<o>> \o ChainFrom(WrappedOf(o))

\* chain.pop(): the innermost object reached
ChainOriginal(attr) == LET c == ChainFrom(attr) IN c[Len(c)]

\* list(reversed(chain)) after the pop: innermost wrapper first
ChainWrappers(attr) == LET c == ChainFrom(attr) IN Reverse(SubSeq(c, 1, Len(c) - 1))

\* [getattr(w, '_applied_decorator', None) for w in wrappers]
ChainDecorators(attr) ==
  LET w == ChainWrappers(attr) IN [i \in 1..Len(w) |-> TagOf(w[i])]

\* a rebuild that takes every slot for a plain one
AlwaysPlain(attr) == "plain"

DescriptorType(attr) == IF IsDesc(attr) THEN attr.kind ELSE "plain"

\* the result of one cycle: the boolean reported (or "raise") and the value
\* the slot holds afterwards
Outcome(out, attr) == [out |-> out, attr |-> attr]

(***************************************************************************)
(* decorate, lines 105-133: the duplicate walk, the call of the decorator, *)
(* update_wrapper, the tag and the descriptor re-wrap.                     *)
(***************************************************************************)
\* a duplicate walk that finds nothing
NeverDecorated(cur, d) == FALSE

RECURSIVE AlreadyDecorated(_, _)
AlreadyDecorated(cur, d) ==
  IF WrappedOf(cur).kind = "none" THEN FALSE
  ELSE IF TagOf(cur) = d THEN TRUE
  ELSE AlreadyDecorated(WrappedOf(cur), d)

\* the duplicate walk (while hasattr(current_func, '__wrapped__')) neither
\* finds d nor runs out of __wrapped__ attributes
RECURSIVE WalkEndless(_, _)
WalkEndless(cur, d) ==
  IF WrappedOf(cur).kind = "none" THEN FALSE
  ELSE IF TagOf(cur) = d THEN FALSE
  ELSE IF cur.kind = "function" /\ cur.wrapped = Itself THEN TRUE
  ELSE WalkEndless(WrappedOf(cur), d)

\* a decorate that always wraps the innermost function of the chain
InnermostToDecorate(attr) == ChainOriginal(attr)

FuncToDecorate(attr) == IF IsDesc(attr) THEN attr.func ELSE attr

\* functools.update_wrapper(x, x), x being what the slot holds: the last
\* assignment of update_wrapper makes x.__wrapped__ refer to x
UpdateItself(x) == [x EXCEPT !.wrapped = Itself]

DecoratedFunction(d, func) ==
  LET made == CallTransformer(d, func)
  IN IF made.kind = "raised" THEN Raised
     ELSE IF TransformerKind(d) = "returns" THEN [UpdateItself(func) EXCEPT !.tag = d]
     ELSE [UpdateWrapper(made, func) EXCEPT !.tag = d]

DecorateCycle(attr, d, again) ==
  IF ~again /\ AlreadyDecorated(attr, d) THEN Outcome("False", attr)
  ELSE LET made == DecoratedFunction(d, FuncToDecorate(attr))
       IN IF made.kind = "raised" THEN Outcome("raise", attr)
          ELSE Outcome("True", Rewrap(DescriptorType(attr), made))

(***************************************************************************)
(* redecorate, lines 174-227.  decorators_to_apply is a list of callables: *)
(* a decorator, or the fallback lambda f: wrapper, which ignores f and     *)
(* returns whatever its free variable holds when the rebuild runs: the     *)
(* last value of the loop variable (the wrapper the loop stopped at) for   *)
(* the lambdas of line 205, the last of the remaining wrappers for those   *)
(* of line 200.                                                            *)
(***************************************************************************)
Deco(d) == [t |-> "deco", d |-> d, obj |-> None]

Const(o) == [t |-> "const", d |-> NoTag, obj |-> o]

\* the index the for loop of line 191 stops at: the first wrapper tagged
\* deco1 when change_all is false, the last wrapper otherwise
LoopStop(wrappers, deco1, changeAll) ==
  LET hits == {i \in 1..Len(wrappers) : TagOf(wrappers[i]) = deco1}
  IN IF changeAll \/ hits = {} THEN Len(wrappers)
     ELSE CHOOSE i \in hits : \A j \in hits : i <= j

DecoratorsToApply(wrappers, deco1, deco2, changeAll) ==
  LET n == Len(wrappers)
      stop == LoopStop(wrappers, deco1, changeAll)
  IN [i \in 1..n |->
        IF i <= stop
        THEN IF TagOf(wrappers[i]) = deco1 THEN Deco(deco2)
             ELSE IF TagOf(wrappers[i]) # NoTag THEN Deco(TagOf(wrappers[i]))
             ELSE Const(wrappers[stop])
        ELSE \* wrappers[len(decorators_to_apply):], line 198
             IF wrappers[i].kind = "function" /\ wrappers[i].tag # NoTag
             THEN Deco(wrappers[i].tag)
             ELSE Const(wrappers[n])]

RedecorateChanged(wrappers, deco1) ==
  \E i \in 1..Len(wrappers) : TagOf(wrappers[i]) = deco1

\* for deco in decorators_to_apply: rebuilt_func = deco(rebuilt_func)
RECURSIVE RebuildWith(_, _, _)
RebuildWith(todo, i, acc) ==
  IF i > Len(todo) \/ acc.kind = "raised" THEN acc
  ELSE RebuildWith(todo, i + 1,
         IF todo[i].t = "const" THEN todo[i].obj
         ELSE CallTransformer(todo[i].d, acc))

RedecorateCycle(attr, deco1, deco2, changeAll) ==
  IF Len(ChainFrom(attr)) <= 1 THEN Outcome("False", attr)
  ELSE LET wrappers == ChainWrappers(attr)
       IN IF ~RedecorateChanged(wrappers, deco1) THEN Outcome("False", attr)
          ELSE LET rebuilt ==
                     RebuildWith(DecoratorsToApply(wrappers, deco1, deco2, changeAll),
                                 1, ChainOriginal(attr))
               IN IF rebuilt.kind = "raised" THEN Outcome("raise", attr)
                  ELSE Outcome("True", Rewrap(DescriptorType(attr), rebuilt))

(***************************************************************************)
(* undecorate, lines 265-312.  toRemove = NoTag stands for                 *)
(* decorator_to_remove=None.                                               *)
(***************************************************************************)
RemoveAt(s, i) == SubSeq(s, 1, i - 1) \o SubSeq(s, i + 1, Len(s))

\* the three cases of lines 274-290; the list is returned unchanged when
\* nothing is removed
NewDecorators(decorators, toRemove, ifTopmost) ==
  LET n == Len(decorators)
      hits == {i \in 1..n : decorators[i] = toRemove}
  IN IF toRemove = NoTag THEN RemoveAt(decorators, n)
     ELSE IF ifTopmost
          THEN IF decorators[n] = toRemove THEN RemoveAt(decorators, n)
               ELSE decorators
     ELSE IF hits = {} THEN decorators
          ELSE RemoveAt(decorators, CHOOSE i \in hits : \A j \in hits : j <= i)

UndecorateChanged(decorators, toRemove, ifTopmost) ==
  \/ toRemove = NoTag
  \/ ifTopmost /\ decorators[Len(decorators)] = toRemove
  \/ ~ifTopmost /\ \E i \in 1..Len(decorators) : decorators[i] = toRemove

\* for deco in new_decorators: if deco: rebuilt_func = deco(rebuilt_func)
RECURSIVE RebuildFrom(_, _, _)
RebuildFrom(decos, i, acc) ==
  IF i > Len(decos) \/ acc.kind = "raised" THEN acc
  ELSE RebuildFrom(decos, i + 1,
         IF decos[i] = NoTag THEN acc ELSE CallTransformer(decos[i], acc))

UndecorateCycle(attr, toRemove, ifTopmost) ==
  LET decorators == ChainDecorators(attr)
  IN IF Len(decorators) = 0 THEN Outcome("False", attr)
     ELSE IF ~UndecorateChanged(decorators, toRemove, ifTopmost)
          THEN Outcome("False", attr)
     ELSE LET rebuilt ==
                RebuildFrom(NewDecorators(decorators, toRemove, ifTopmost),
                            1, ChainOriginal(attr))
          IN IF rebuilt.kind = "raised" THEN Outcome("raise", attr)
             ELSE Outcome("True", Rewrap(DescriptorType(attr), rebuilt))

(***************************************************************************)
(* Target resolution.  A caller passes the callable it obtained either     *)
(* before any patch (the original function object) or by a normal          *)
(* attribute access now: module.f and K.sm give what the slot wraps, K.cm  *)
(* gives a method bound to the class K, whose __self__.__class__ is the    *)
(* metaclass.  The plain slot F is also read as a method declared by a     *)
(* class K with a subclass Sub that inherits it: Inherited is the entry of *)
(* that name in Sub's own table, None as long as Sub only inherits, and a  *)
(* caller may pass the method bound to an instance of K ("inst") or of Sub *)
(* ("subinst").                                                            *)
(***************************************************************************)
Refs == [slot : Slots, via : {"orig", "attr"}]

Inherited == "Sub.F"

AllSlots == Slots \cup {Inherited}

InstanceRefs == [slot : {"F"}, via : {"inst", "subinst"}]

\* inspect.getattr_static(parent, func_name): the entry of the class itself
\* or else, along the MRO, the one of the class it inherits from
GetattrStatic(table, parent) ==
  IF parent = Inherited /\ table[Inherited] = None THEN table["F"]
  ELSE table[parent]

Metaclass == "type"

BoundMethod(cls) == [kind |-> "method", cls |-> cls]

\* the object the caller passes as func_obj
\* the container and name a bound method leads to: the class of the
\* instance, and the __name__ of the function it binds, which is the name
\* of the slot unless the function is a bare closure
MethodOf(cls, func) == BoundMethod(IF QualOf(func) = Locals THEN Locals ELSE cls)

Passed(ref, attrs) ==
  IF ref.via = "orig" THEN OriginalFunc(ref.slot)
  ELSE IF ref.via = "inst" THEN MethodOf(ref.slot, attrs[ref.slot])
  ELSE IF ref.via = "subinst"
       THEN MethodOf(Inherited, GetattrStatic(attrs, Inherited))
  ELSE CASE SlotShape(ref.slot) = "plain" -> attrs[ref.slot]
         [] SlotShape(ref.slot) = "static" -> attrs[ref.slot].func
         [] SlotShape(ref.slot) = "class" -> BoundMethod(Metaclass)

Found(parent) == [ok |-> TRUE, parent |-> parent, exc |-> "none"]

NotFound(exc) == [ok |-> FALSE, parent |-> "none", exc |-> exc]

\* _get_parent_and_name: the container, or the TypeError of line 21 or 25
GetParentAndName(obj) ==
  CASE obj.kind = "method" -> Found(obj.cls)
    [] obj.kind = "function" ->
         IF obj.qual = Locals THEN NotFound("TypeError") ELSE Found(obj.qual)
    [] OTHER -> NotFound("TypeError")

\* _get_parent_and_name followed by inspect.getattr_static(parent, func_name):
\* the slot, or the exception raised
Locate(ref, attrs) ==
  LET at == GetParentAndName(Passed(ref, attrs))
  IN IF ~at.ok THEN at
     ELSE IF at.parent \notin AllSlots THEN NotFound("AttributeError")
     ELSE at


(***************************************************************************)
(* State.  attrs is the attribute table of the containers; lock is         *)
(* _patch_lock (NoThread when free); pc and call are each caller thread's  *)
(* position and the locals of its call; ncalls counts the calls made;      *)
(* last records the most recent pass through a with block: the call it     *)
(* belongs to, the target, the value the slot held before, what the body   *)
(* did (out) and what the caller is told for that target (res).  A call    *)
(* also remembers the table as it was when the call was made (entry).      *)
(***************************************************************************)
VARIABLES attrs, lock, pc, call, ncalls, last

vars == <<attrs, lock, pc, call, ncalls, last>>

NoThread == 0

NoCall ==
  [op |-> "none", d |-> NoTag, d2 |-> NoTag, flag |-> FALSE, roe |-> FALSE,
   n |-> 0, targets |-> <<>>, results |-> <<>>, slot |-> "none", attr |-> None,
   exc |-> "none", failed |-> "none", entry |-> <<>>]

NewCall(op, d, d2, flag, roe, n) ==
  [NoCall EXCEPT !.op = op, !.d = d, !.d2 = d2, !.flag = flag, !.roe = roe, !.n = n]

NoCycle ==
  [op |-> "none", d |-> NoTag, d2 |-> NoTag, flag |-> FALSE, roe |-> FALSE,
   slot |-> "none", pre |-> None, out |-> "none", res |-> "none"]

Init ==
  /\ attrs = [s \in AllSlots |-> IF s = Inherited THEN None ELSE InitialAttr(s)]
  /\ lock = NoThread
  /\ pc = [t \in Threads |-> "idle"]
  /\ call = [t \in Threads |-> NoCall]
  /\ ncalls = 0
  /\ last = NoCycle

\* the exceptions the three operations catch (except (TypeError, AttributeError))
Caught == {"TypeError", "AttributeError"}

\* what a failing transformer may raise
Raisable == {"TypeError", "ValueError"}

\* an except clause that turns every exception into False
Suppress(c, exc) ==
  [c EXCEPT !.results = Append1(c.results, "False"), !.slot = "none",
            !.attr = None, !.failed = exc]

\* the except clause: a caught exception becomes False unless raise_on_error,
\* anything else leaves the call
Handle(c, exc) ==
  IF exc \in Caught /\ ~c.roe
  THEN [c EXCEPT !.results = Append1(c.results, "False"), !.slot = "none",
                 !.attr = None, !.failed = exc]
  ELSE [c EXCEPT !.exc = exc, !.slot = "none", !.attr = None, !.failed = exc]

\* results.append(...) and the end of the with block
Report(c, out) ==
  [c EXCEPT !.results = Append1(c.results, out), !.slot = "none", !.attr = None,
            !.failed = "none"]

\* what the caller is told for the target just processed
Told(c) == IF c.exc # "none" THEN "raised" ELSE c.results[Len(c.results)]

PcAfter(c) ==
  IF c.exc # "none" THEN "raised"
  ELSE IF Len(c.results) = c.n THEN "returned"
  ELSE "next"

\* a call that works on the value the slot had when the call was made
EnterCallEarly(c, ref, table) ==
  LET at == Locate(ref, table)
      c1 == [c EXCEPT !.targets = Append1(c.targets, ref)]
  IN IF at.ok
     THEN [c1 EXCEPT !.slot = at.parent, !.attr = GetattrStatic(c.entry, at.parent),
                     !.failed = "none"]
     ELSE Handle(c1, at.exc)

\* the first lines of the with block: resolve the target and read its slot
EnterCall(c, ref, table) ==
  LET at == Locate(ref, table)
      c1 == [c EXCEPT !.targets = Append1(c.targets, ref)]
  IN IF at.ok
     THEN [c1 EXCEPT !.slot = at.parent, !.attr = GetattrStatic(table, at.parent),
                     !.failed = "none"]
     ELSE Handle(c1, at.exc)

\* the body of the with block on the value read from the slot.  On a chain
\* that never ends the duplicate walk of decorate loops without an exit
\* ("hang"); the walk of redecorate and undecorate appends to its list until
\* no memory is left ("exhaust").
Cycle(c) ==
  CASE c.op = "decorate" ->
         IF ~c.flag /\ WalkEndless(c.attr, c.d) THEN Outcome("hang", c.attr)
         ELSE DecorateCycle(c.attr, c.d, c.flag)
    [] c.op = "redecorate" ->
         IF Endless(c.attr) THEN Outcome("exhaust", c.attr)
         ELSE RedecorateCycle(c.attr, c.d, c.d2, c.flag)
    [] c.op = "undecorate" ->
         IF Endless(c.attr) THEN Outcome("exhaust", c.attr)
         ELSE UndecorateCycle(c.attr, c.d, c.flag)

\* the body of the with block reaches its end or raises
Finishes(c) == Cycle(c).out # "hang"

\* what the body of the with block may raise: whatever the failing
\* transformer raises, or MemoryError from the list of the walk
Raises(r) ==
  IF r.out = "raise" THEN Raisable
  ELSE IF r.out = "exhaust" THEN {"MemoryError"}
  ELSE {"none"}

\* the call after the rest of the with block, r being what the body did
PatchCall(c, r, exc) ==
  IF r.out \in {"raise", "exhaust"} THEN Handle(c, exc) ELSE Report(c, r.out)

\* a write that goes to the slot of the first target of the call
PatchFirstTarget(c, r, table) ==
  IF r.out = "True" THEN [table EXCEPT ![c.targets[1].slot] = r.attr] ELSE table

\* setattr(parent, func_name, final_obj)
PatchTable(c, r, table) ==
  IF r.out = "True" THEN [table EXCEPT ![c.slot] = r.attr] ELSE table

CycleRecord(c, ref, pre, out, after) ==
  [op |-> c.op, d |-> c.d, d2 |-> c.d2, flag |-> c.flag, roe |-> c.roe,
   slot |-> ref.slot, pre |-> pre, out |-> out, res |-> Told(after)]

FailedRecord(c, ref, table, after) ==
  CycleRecord(c, ref, table[ref.slot], after.failed, after)

PatchRecord(c, r, exc) ==
  CycleRecord(c, c.targets[Len(c.targets)], c.attr,
              IF r.out \in {"raise", "exhaust"} THEN exc ELSE r.out,
              PatchCall(c, r, exc))

(***************************************************************************)
(* A caller that makes one call at a time with a single target: the whole  *)
(* call (lock, resolve, read, rebuild, write, unlock) is one step.         *)
(***************************************************************************)
Quiet == lock = NoThread /\ \A t \in Threads : pc[t] = "idle"

WholeCall(c, ref) ==
  /\ Quiet
  /\ ncalls' = ncalls + 1
  /\ LET c1 == EnterCall(c, ref, attrs)
         r == Cycle(c1)
     IN IF c1.slot = "none"
        THEN /\ attrs' = attrs
             /\ last' = FailedRecord(c, ref, attrs, c1)
        ELSE \E exc \in Raises(r) :
               /\ Finishes(c1)
               /\ attrs' = PatchTable(c1, r, attrs)
               /\ last' = PatchRecord(c1, r, exc)
  /\ UNCHANGED <<lock, pc, call>>

\* decorate(decorator, func, decorate_again=again, raise_on_error=roe)
Decorate(d, again, roe, ref) ==
  WholeCall(NewCall("decorate", d, NoTag, again, roe, 1), ref)

\* redecorate(deco1, deco2, func, change_all=changeAll, raise_on_error=roe)
Redecorate(d1, d2, changeAll, roe, ref) ==
  WholeCall(NewCall("redecorate", d1, d2, changeAll, roe, 1), ref)

\* undecorate(func, decorator_to_remove, if_topmost=ifTopmost, raise_on_error=roe)
Undecorate(d, ifTopmost, roe, ref) ==
  WholeCall(NewCall("undecorate", d, NoTag, ifTopmost, roe, 1), ref)

Next ==
  \/ \E d \in Transformers, again \in BOOLEAN, roe \in BOOLEAN, ref \in Refs :
       ncalls < MaxCalls /\ Decorate(d, again, roe, ref)
  \/ \E d1 \in Wrapping, d2 \in Transformers, changeAll \in BOOLEAN, roe \in BOOLEAN,
        ref \in Refs :
       ncalls < MaxCalls /\ Redecorate(d1, d2, changeAll, roe, ref)
  \/ \E d \in Wrapping \cup {NoTag}, ifTopmost \in BOOLEAN, roe \in BOOLEAN,
        ref \in Refs :
       ncalls < MaxCalls /\ Undecorate(d, ifTopmost, roe, ref)

Spec == Init /\ [][Next]_vars

\* a caller that only patches and unpatches
PatchNext ==
  \/ \E d \in Transformers, again \in BOOLEAN, roe \in BOOLEAN, ref \in Refs :
       ncalls < MaxPatchCalls /\ Decorate(d, again, roe, ref)
  \/ \E d \in Wrapping \cup {NoTag}, ifTopmost \in BOOLEAN, roe \in BOOLEAN,
        ref \in Refs :
       ncalls < MaxPatchCalls /\ Undecorate(d, ifTopmost, roe, ref)

PatchSpec == Init /\ [][PatchNext]_vars

\* the target as the caller held it before any patch: it always resolves
Held(s) == [slot |-> s, via |-> "orig"]

\* a caller whose calls never fail: the targets resolve, the decorators
\* return a wrapper, raise_on_error keeps its default
ChainNext ==
  \/ \E d \in Wrapping, again \in BOOLEAN, s \in Slots :
       ncalls < MaxChainCalls /\ Decorate(d, again, TRUE, Held(s))
  \/ \E d1 \in Wrapping, d2 \in Wrapping, changeAll \in BOOLEAN, s \in Slots :
       ncalls < MaxChainCalls /\ Redecorate(d1, d2, changeAll, TRUE, Held(s))
  \/ \E d \in Wrapping \cup {NoTag}, ifTopmost \in BOOLEAN, s \in Slots :
       ncalls < MaxChainCalls /\ Undecorate(d, ifTopmost, TRUE, Held(s))

ChainSpec == Init /\ [][ChainNext]_vars

\* a caller that passes the method F bound to an instance of the class that
\* declares it or of the subclass that inherits it
InstanceNext ==
  \/ \E d \in Transformers, again \in BOOLEAN, roe \in BOOLEAN, ref \in InstanceRefs :
       ncalls < MaxInstanceCalls /\ Decorate(d, again, roe, ref)
  \/ \E d1 \in Wrapping, d2 \in Transformers, changeAll \in BOOLEAN, roe \in BOOLEAN,
        ref \in InstanceRefs :
       ncalls < MaxInstanceCalls /\ Redecorate(d1, d2, changeAll, roe, ref)
  \/ \E d \in Wrapping \cup {NoTag}, ifTopmost \in BOOLEAN, roe \in BOOLEAN,
        ref \in InstanceRefs :
       ncalls < MaxInstanceCalls /\ Undecorate(d, ifTopmost, roe, ref)

InstanceSpec == Init /\ [][InstanceNext]_vars

(***************************************************************************)
(* Caller threads.  A call walks its targets; for each one the thread      *)
(* takes the lock, resolves the target and reads the slot (Enter), then    *)
(* rebuilds, writes and releases the lock (Patch).  A failed resolution    *)
(* leaves the with block, releasing the lock, in the Enter step.           *)
(***************************************************************************)
StartCall(t, c) ==
  /\ pc[t] = "idle"
  /\ pc' = [pc EXCEPT ![t] = "next"]
  /\ call' = [call EXCEPT ![t] = [c EXCEPT !.entry = attrs]]
  /\ ncalls' = ncalls + 1
  /\ UNCHANGED <<attrs, lock, last>>

CallDecorate(t, d, again, roe, n) ==
  StartCall(t, NewCall("decorate", d, NoTag, again, roe, n))

CallRedecorate(t, d1, d2, changeAll, roe, n) ==
  StartCall(t, NewCall("redecorate", d1, d2, changeAll, roe, n))

CallUndecorate(t, d, ifTopmost, roe) ==
  StartCall(t, NewCall("undecorate", d, NoTag, ifTopmost, roe, 1))

\* a lock that never makes a thread wait
NeverHeld(t) == TRUE

\* with _patch_lock: the lock can be taken
Acquirable(t) == lock = NoThread

Enter(t, ref) ==
  /\ pc[t] = "next"
  /\ Acquirable(t)
  /\ LET c1 == EnterCall(call[t], ref, attrs)
     IN /\ call' = [call EXCEPT ![t] = c1]
        /\ IF c1.slot = "none"
           THEN /\ lock' = lock
                /\ pc' = [pc EXCEPT ![t] = PcAfter(c1)]
                /\ last' = FailedRecord(call[t], ref, attrs, c1)
           ELSE /\ lock' = t
                /\ pc' = [pc EXCEPT ![t] = "patch"]
                /\ last' = last
  /\ UNCHANGED <<attrs, ncalls>>

\* the decorator returned the function the slot holds, so lines 122-123 act
\* on that function before line 132 writes the slot
Live(c) ==
  c.op = "decorate" /\ TransformerKind(c.d) = "returns" /\ Cycle(c).out = "True"

\* line 122 when decorated_function is func_to_decorate
UpdateLive(t) ==
  /\ pc[t] = "patch"
  /\ Live(call[t])
  /\ attrs' = [attrs EXCEPT ![call[t].slot] =
                 Rewrap(DescriptorType(call[t].attr),
                        UpdateItself(FuncToDecorate(call[t].attr)))]
  /\ pc' = [pc EXCEPT ![t] = "tag"]
  /\ UNCHANGED <<lock, call, ncalls, last>>

Patch(t) ==
  /\ pc[t] \in {"patch", "tag"}
  /\ pc[t] = IF Live(call[t]) THEN "tag" ELSE "patch"
  /\ Finishes(call[t])
  /\ LET r == Cycle(call[t])
     IN \E exc \in Raises(r) :
          /\ attrs' = PatchTable(call[t], r, attrs)
          /\ call' = [call EXCEPT ![t] = PatchCall(call[t], r, exc)]
          /\ pc' = [pc EXCEPT ![t] = PcAfter(PatchCall(call[t], r, exc))]
          /\ last' = PatchRecord(call[t], r, exc)
  /\ lock' = NoThread
  /\ UNCHANGED ncalls

\* the call returns its tuple, or the exception reaches the caller
Return(t) ==
  /\ pc[t] \in {"returned", "raised"}
  /\ pc' = [pc EXCEPT ![t] = "idle"]
  /\ call' = [call EXCEPT ![t] = NoCall]
  /\ UNCHANGED <<attrs, lock, ncalls, last>>

ThreadStep(t, maxCalls, maxBatch) ==
  \/ \E d \in Transformers, again \in BOOLEAN, roe \in BOOLEAN, n \in 1..maxBatch :
       ncalls < maxCalls /\ CallDecorate(t, d, again, roe, n)
  \/ \E d1 \in Wrapping, d2 \in Transformers, changeAll \in BOOLEAN,
        roe \in BOOLEAN, n \in 1..maxBatch :
       ncalls < maxCalls /\ CallRedecorate(t, d1, d2, changeAll, roe, n)
  \/ \E d \in Wrapping \cup {NoTag}, ifTopmost \in BOOLEAN, roe \in BOOLEAN :
       ncalls < maxCalls /\ CallUndecorate(t, d, ifTopmost, roe)
  \/ \E ref \in Refs : Enter(t, ref)
  \/ Patch(t)
  \/ Return(t)

\* NumThreads threads making single-target calls concurrently
ThreadNext == \E t \in 1..NumThreads : ThreadStep(t, ThreadCalls, 1)

ThreadSpec == Init /\ [][ThreadNext]_vars

\* one thread making calls over several targets
BatchNext == ThreadStep(1, BatchCalls, MaxBatch)

BatchSpec == Init /\ [][BatchNext]_vars

\* the transformer each applying thread passes: pairwise distinct
OwnDecorator(t) == <<"A", "P", "B">>[t]

\* the threads all name the same target
SameTarget(ref) ==
  \A u \in Threads : call[u].targets # <<>> => call[u].targets[1].slot = ref.slot

\* NumAppliers threads, each calling decorate once with its own decorator and
\* decorate_again=True, all on one target
ApplyNext ==
  \E t \in 1..NumAppliers :
    \/ \E roe \in BOOLEAN : CallDecorate(t, OwnDecorator(t), TRUE, roe, 1)
    \/ \E ref \in Refs : SameTarget(ref) /\ Enter(t, ref)
    \/ Patch(t)

ApplySpec == Init /\ [][ApplyNext]_vars

\* NumThreads threads whose decorators include one that returns its argument
\* unchanged; the targets resolve and raise_on_error keeps its default
IdentityNext ==
  \E t \in 1..NumThreads :
    \/ \E d \in Returning \cup {"A"}, again \in BOOLEAN :
         ncalls < IdentityCalls /\ CallDecorate(t, d, again, FALSE, 1)
    \/ \E d1 \in Returning \cup {"A"}, d2 \in Returning \cup {"A"},
          changeAll \in BOOLEAN :
         ncalls < IdentityCalls /\ CallRedecorate(t, d1, d2, changeAll, FALSE, 1)
    \/ \E d \in Returning \cup {"A", NoTag}, ifTopmost \in BOOLEAN :
         ncalls < IdentityCalls /\ CallUndecorate(t, d, ifTopmost, FALSE)
    \/ \E s \in Slots : Enter(t, Held(s))
    \/ UpdateLive(t)
    \/ Patch(t)
    \/ Return(t)

IdentitySpec == Init /\ [][IdentityNext]_vars

(***************************************************************************)
(* What a caller can observe of a slot.                                    *)
(***************************************************************************)
RECURSIVE Underlying(_)
Underlying(o) == IF IsDesc(o) THEN Underlying(o.func) ELSE o

\* the transformers whose effect a call through the slot goes through,
\* innermost first
Active(attr) == Underlying(attr).eff

\* the layers the chain of __wrapped__ references records, innermost first:
\* the transformer of each wrapper, NoTag for an untracked one
Layers(attr) ==
  LET w == ChainWrappers(attr)
      RECURSIVE Pick(_)
      Pick(i) ==
        IF i > Len(w) THEN <<>>
        ELSE IF w[i].kind = "function" THEN <<w[i].tag>> \o Pick(i + 1)
        ELSE Pick(i + 1)
  IN Pick(1)

Count(seq, e) == Cardinality({i \in 1..Len(seq) : seq[i] = e})

Front(seq) == SubSeq(seq, 1, Len(seq) - 1)

Exceptions == Caught \cup Raisable

\* the slot the last cycle was about, as it is now
LastAttr == attrs[last.slot]

\* the last cycle resolved its target and ran the body of the with block
LastRan(op) == last.op = op /\ last.out \in {"True", "False"}

(***************************************************************************)
(* Claims about single calls, checked under Spec and PatchSpec.            *)
(***************************************************************************)

\* a call was made by this step
Called == ncalls' = ncalls + 1

\* C1: decorate(T, f) that succeeded, followed at once by undecorate(f) with
\* no decorator named, leaves the chain of f as it was before the decorate:
\* the same recorded layers in the same order and the same effect when
\* called, whatever the kind of slot and whatever chain was there before.
C1_ApplyThenRemoveRestores ==
  [][(/\ Called
      /\ last.op = "decorate" /\ last.res = "True"
      /\ last'.op = "undecorate" /\ last'.d = NoTag
      /\ last'.slot = last.slot
      /\ last'.out \in {"True", "False"})
     => /\ Layers(attrs'[last.slot]) = Layers(last.pre)
        /\ Active(attrs'[last.slot]) = Active(last.pre)]_vars

\* a first decorate(T, f, decorate_again=False) on the unpatched slot
FirstOnUnpatched(c) ==
  /\ c.op = "decorate" /\ ~c.flag /\ c.d \in Wrapping
  /\ c.out \in {"True", "False"}
  /\ c.pre = InitialAttr(c.slot)

\* the same call made a second time
SameAgain(c1, c2) ==
  /\ c2.op = "decorate" /\ ~c2.flag /\ c2.d = c1.d /\ c2.slot = c1.slot
  /\ c2.out \in {"True", "False"}

\* C2: on an unpatched target, decorate(T, f) with decorate_again=False
\* returns True and leaves a chain of exactly the one layer of T; the same
\* call made again returns False, writes nothing, and the chain is still that
\* one layer, T taking effect once.
C2_SecondApplyRefused ==
  [][Called =>
       /\ FirstOnUnpatched(last') =>
            /\ last'.res = "True"
            /\ Layers(attrs'[last'.slot]) = <<last'.d>>
            /\ Active(attrs'[last'.slot]) = <<last'.d>>
       /\ (FirstOnUnpatched(last) /\ SameAgain(last, last')) =>
            /\ last'.res = "False"
            /\ attrs' = attrs
            /\ Layers(attrs'[last'.slot]) = <<last'.d>>
            /\ Active(attrs'[last'.slot]) = <<last'.d>>]_vars

\* the second of the two calls has just returned False on the chain the first
\* one built
C2_Witness ==
  /\ LastRan("decorate") /\ ~last.flag /\ last.d \in Wrapping
  /\ last.res = "False"
  /\ Layers(last.pre) = <<last.d>>
  /\ Active(LastAttr) = <<last.d>>
  /\ ChainOriginal(last.pre) = OriginalFunc(last.slot)

\* C3: decorate(T, f) with decorate_again=False refuses whenever a layer
\* made by T is in effect anywhere in the chain of f: it returns False and
\* the slot keeps its value.
C3_DuplicateAlwaysRefused ==
  (/\ LastRan("decorate") /\ ~last.flag /\ last.d \in Wrapping
   /\ Count(Active(last.pre), last.d) > 0)
  => (last.res = "False" /\ LastAttr = last.pre)

\* C4: undecorate(f) with no decorator named removes exactly the outermost
\* layer of a non-empty chain, whatever the kind of slot, leaving the inner
\* layers in effect in their order, and returns True; on an empty chain it
\* returns False and the slot keeps its value.
C4_RemoveOutermost ==
  (LastRan("undecorate") /\ last.d = NoTag)
  => IF Active(last.pre) # <<>>
     THEN /\ last.res = "True"
          /\ Active(LastAttr) = Front(Active(last.pre))
     ELSE /\ last.res = "False"
          /\ LastAttr = last.pre

\* C5: a slot declared with staticmethod or classmethod always holds a
\* descriptor of that kind, and once no layer is in effect any more it holds
\* exactly what it held before patching: the descriptor around the original
\* function.
C5_DescriptorRoundTrip ==
  \A s \in Slots :
    /\ attrs[s].kind = InitialAttr(s).kind
    /\ Active(attrs[s]) = <<>> => attrs[s] = InitialAttr(s)

\* an undecorate has just taken the last layer off a static or class slot
C5_Witness ==
  /\ LastRan("undecorate") /\ last.res = "True"
  /\ SlotShape(last.slot) \in {"static", "class"}
  /\ Active(last.pre) # <<>>
  /\ Active(LastAttr) = <<>>
  /\ LastAttr = InitialAttr(last.slot)

\* C10: the boolean reported for a target is True exactly when the chain of
\* that target was changed by the call: after True the layers differ from
\* those before, after False the slot holds the value it held.
C10_TrueIffChanged ==
  /\ (last.out \in {"True", "False"} /\ last.res = "True")
       => (Layers(LastAttr) # Layers(last.pre) \/ Active(LastAttr) # Active(last.pre))
  /\ last.res = "False" => LastAttr = last.pre

(***************************************************************************)
(* Claims about threads, checked under ApplySpec and ThreadSpec.           *)
(***************************************************************************)
Appliers == 1..NumAppliers

\* every applying thread has made its call and is out of it
AllApplied == \A t \in Appliers : pc[t] \in {"returned", "raised"}

Applied(t) == call[t].results = <<"True">>

\* C6: when the threads have each applied their own decorator to the same
\* target with decorate_again=True, every call whose target resolved
\* returned True, and the chain holds exactly one layer per such call, the
\* decorator of each of them exactly once, none lost or overwritten.
C6_NoLostApply ==
  AllApplied =>
    \A s \in Slots :
      (\A t \in Appliers : call[t].targets[1].slot = s) =>
        /\ \A t \in Appliers : call[t].failed = "none" => Applied(t)
        /\ Len(Layers(attrs[s])) = Cardinality({t \in Appliers : Applied(t)})
        /\ Len(Active(attrs[s])) = Cardinality({t \in Appliers : Applied(t)})
        /\ \A t \in Appliers :
             /\ Count(Layers(attrs[s]), OwnDecorator(t)) = (IF Applied(t) THEN 1 ELSE 0)
             /\ Count(Active(attrs[s]), OwnDecorator(t)) = (IF Applied(t) THEN 1 ELSE 0)

\* all the threads got their layer in
C6_Witness ==
  /\ AllApplied
  /\ \A t \in Appliers : Applied(t)
  /\ \E s \in Slots : Len(Layers(attrs[s])) = NumAppliers

\* C7: the lock is held by a thread from the resolution of its target to the
\* write to the slot: at most one thread is between its read and its write,
\* that thread holds the lock, and the value it read is still the value of
\* the slot, so every write is made on the outcome of the writes before it.
C7_LockedReadToWrite ==
  \A t \in 1..NumThreads :
    pc[t] = "patch" =>
      /\ lock = t
      /\ call[t].attr = attrs[call[t].slot]
      /\ \A u \in 1..NumThreads : pc[u] = "patch" => u = t

\* a thread is between its read and its write on a slot that another thread,
\* whose call overlapped with this one, has patched
C7_Witness ==
  \E t, u \in 1..NumThreads :
    /\ t # u
    /\ pc[t] = "patch" /\ lock = t
    /\ call[t].attr # InitialAttr(call[t].slot)
    /\ pc[u] = "returned" /\ call[u].results = <<"True">>
    /\ call[u].targets[1].slot = call[t].slot

(***************************************************************************)
(* Claims about calls over several targets, checked under BatchSpec.       *)
(***************************************************************************)

\* the targets of call c handled before the one at position j that were
\* reported True and are kept in slot s
Committed(c, j, s) ==
  \E i \in 1..(j - 1) : c.targets[i].slot = s /\ c.results[i] = "True"

\* C8: with raise_on_error=True the first target that fails ends the call
\* with the error: nothing is reported for that target or a later one, the
\* failing target's slot and the slots of the targets not reached hold what
\* they held when the call was made, and what was written for the targets
\* before it stays written.
C8_FirstFailureAborts ==
  /\ (last.roe /\ last.out \in Exceptions) => last.res = "raised"
  /\ (pc[1] = "raised" /\ call[1].roe) =>
       LET c == call[1]
           j == Len(c.targets)
       IN /\ Len(c.results) = j - 1
          /\ \A i \in 1..(j - 1) : c.results[i] \in {"True", "False"}
          /\ last.slot = c.targets[j].slot /\ last.pre = attrs[last.slot]
          /\ \A s \in Slots :
               IF Committed(c, j, s) THEN attrs[s] # c.entry[s]
               ELSE attrs[s] = c.entry[s]

\* a call over two targets has patched the first and failed on the second
C8_Witness ==
  /\ pc[1] = "raised" /\ call[1].roe
  /\ call[1].n = 2 /\ Len(call[1].targets) = 2
  /\ call[1].results = <<"True">>
  /\ attrs[call[1].targets[1].slot] # call[1].entry[call[1].targets[1].slot]

\* C9: with raise_on_error=False no error reaches the caller: whatever fails
\* for a target (its resolution, the shape of its slot, the decorator) is
\* reported as False for that target, and the call goes on to return one
\* boolean per target.
C9_FailuresSuppressed ==
  /\ (~last.roe /\ last.out \in Exceptions) => last.res = "False"
  /\ (~call[1].roe /\ pc[1] \in {"returned", "raised"}) =>
       /\ pc[1] = "returned"
       /\ Len(call[1].results) = call[1].n

(***************************************************************************)
(* Claims about the chain a call leaves, checked under ChainSpec.          *)
(***************************************************************************)

\* the positions of the layers recorded for decorator d, innermost first
Occurrences(layers, d) == {i \in 1..Len(layers) : layers[i] = d}

Highest(S) == CHOOSE i \in S : \A j \in S : j <= i

Lowest(S) == CHOOSE i \in S : \A j \in S : i <= j

\* how many layers lie outside the outermost layer recorded for d
Above(layers, d) == Len(layers) - Highest(Occurrences(layers, d))

\* seq without the element that has k elements after it
DropFromTop(seq, k) == RemoveAt(seq, Len(seq) - k)

\* C11: undecorate(f, T) without if_topmost, when the chain records a layer
\* of T, removes the outermost such layer and no other: every other layer
\* stays in effect in its order, and the call returns True; when the chain
\* records no layer of T it returns False and the slot keeps its value.
C11_RemoveOutermostOccurrence ==
  (LastRan("undecorate") /\ last.d \in Wrapping /\ ~last.flag)
  => IF Occurrences(Layers(last.pre), last.d) # {}
     THEN /\ last.res = "True"
          /\ Active(LastAttr) =
               DropFromTop(Active(last.pre), Above(Layers(last.pre), last.d))
     ELSE /\ last.res = "False"
          /\ LastAttr = last.pre

\* the decorator recorded for the outermost layer, NoTag when there is none
Outermost(layers) == IF layers = <<>> THEN NoTag ELSE layers[Len(layers)]

\* C12: undecorate(f, T, if_topmost=True), whatever the kind of slot, removes
\* the layer of T and returns True exactly when T is the outermost layer of
\* the chain; otherwise it returns False, raises nothing and the slot keeps
\* its value.
C12_OnlyIfOutermost ==
  (LastRan("undecorate") /\ last.d \in Wrapping /\ last.flag)
  => IF Outermost(Layers(last.pre)) = last.d
     THEN /\ last.res = "True"
          /\ Active(LastAttr) = Front(Active(last.pre))
     ELSE /\ last.res = "False"
          /\ LastAttr = last.pre

\* the effects seq with d2 in place of the effect of every layer whose
\* position in layers is in occ, the two sequences being aligned at their
\* outermost ends
Substituted(seq, layers, occ, d2) ==
  [i \in 1..Len(seq) |->
     IF (i - (Len(seq) - Len(layers))) \in occ THEN d2 ELSE seq[i]]

\* C13: redecorate(deco1, deco2, f) with change_all=True, whatever the kind
\* of slot: when the chain records layers of deco1 the call returns True and
\* the chain keeps its length, has deco2 in effect at each of those
\* positions and the same layer as before at every other position; when it
\* records none the call returns False and the slot keeps its value.
C13_ReplaceAll ==
  (LastRan("redecorate") /\ last.flag)
  => LET occ == Occurrences(Layers(last.pre), last.d)
     IN IF occ # {}
        THEN /\ last.res = "True"
             /\ Active(LastAttr) =
                  Substituted(Active(last.pre), Layers(last.pre), occ, last.d2)
        ELSE /\ last.res = "False"
             /\ LastAttr = last.pre

\* C14: redecorate(deco1, deco2, f) with change_all=False replaces only the
\* outermost layer recorded for deco1: deco2 takes effect at that position
\* and every other layer, the inner layers of deco1 included, stays where
\* it was.
C14_ReplaceOutermostOnly ==
  (LastRan("redecorate") /\ ~last.flag /\ Occurrences(Layers(last.pre), last.d) # {})
  => /\ last.res = "True"
     /\ Active(LastAttr) =
          Substituted(Active(last.pre), Layers(last.pre),
                      {Highest(Occurrences(Layers(last.pre), last.d))}, last.d2)

\* the positions in the effects of a slot that belong to layers the chain
\* records without a decorator, the two sequences being aligned at their
\* outermost ends
Untracked(attr) ==
  LET shift == Len(Active(attr)) - Len(Layers(attr))
  IN {i \in 1..Len(Active(attr)) : i - shift >= 1 /\ Layers(attr)[i - shift] = NoTag}

\* C15: a redecorate or an undecorate that succeeds on a chain with layers
\* whose decorator is not recorded keeps each of those layers in effect at
\* its position, around the layers rebuilt beneath it: a redecorate leaves
\* the length of the chain and those layers unchanged; an undecorate takes
\* out exactly one layer, and that layer is an unrecorded one only when it
\* is the outermost and no decorator was named.
C15_UntrackedLayersKept ==
  (/\ last.op \in {"redecorate", "undecorate"}
   /\ last.out = "True" /\ last.res = "True"
   /\ Untracked(last.pre) # {})
  => LET before == Active(last.pre)
         after == Active(LastAttr)
     IN IF last.op = "redecorate"
        THEN /\ Len(after) = Len(before)
             /\ \A i \in Untracked(last.pre) : after[i] = before[i]
        ELSE \E k \in 1..Len(before) :
               /\ after = RemoveAt(before, k)
               /\ k \in Untracked(last.pre) => (last.d = NoTag /\ k = Len(before))

(***************************************************************************)
(* Claims about repeated decoration, checked under PatchSpec.              *)
(***************************************************************************)

\* decorate(T, f, decorate_again=True) that resolved its target
DecorateAgain(c) ==
  /\ c.op = "decorate" /\ c.flag /\ c.d \in Wrapping
  /\ c.out \in {"True", "False"}

\* C16: on an unpatched target, decorate(T, f, decorate_again=True) made
\* twice returns True both times and leaves a chain of two layers, both of
\* T, so that a call of f applies T twice to the result of the original.
C16_TwiceWithDuplicates ==
  [][(/\ Called
      /\ DecorateAgain(last) /\ last.pre = InitialAttr(last.slot)
      /\ DecorateAgain(last') /\ last'.d = last.d /\ last'.slot = last.slot)
     => /\ last.res = "True" /\ last'.res = "True"
        /\ Layers(attrs'[last.slot]) = <<last.d, last.d>>
        /\ Active(attrs'[last.slot]) = <<last.d, last.d>>
        /\ ChainOriginal(attrs'[last.slot]) = OriginalFunc(last.slot)]_vars

\* the second of the two calls has just put the second layer of T on
C16_Witness ==
  /\ DecorateAgain(last) /\ last.res = "True"
  /\ Layers(last.pre) = <<last.d>>
  /\ Layers(LastAttr) = <<last.d, last.d>>
  /\ Active(LastAttr) = <<last.d, last.d>>

(***************************************************************************)
(* Claims about bound methods, checked under InstanceSpec.                 *)
(***************************************************************************)

\* C17: a call that names the method F through an instance, of the class
\* that declares F or of the subclass that inherits it, works on the slot
\* of the declaring class: when it reports True that slot has changed, the
\* subclass still has no entry of its own, and a lookup through the
\* subclass finds what the declaring class holds.
C17_DeclaringClassPatched ==
  /\ attrs[Inherited] = None
  /\ GetattrStatic(attrs, Inherited) = attrs["F"]
  /\ (last.out = "True" /\ last.res = "True") => attrs["F"] # last.pre

(***************************************************************************)
(* Claims about what a cycle leaves alone, checked under BatchSpec.        *)
(***************************************************************************)

\* C18: a step changes at most one slot, and only as the write of a cycle
\* that reports True for the target of that slot: every other slot, of a
\* target of the same call or not, holds after the cycle what it held
\* before.
C18_OnlyTargetSlotWritten ==
  [][\A s \in AllSlots :
       attrs'[s] # attrs[s] =>
         /\ pc[1] = "patch"
         /\ s = call[1].slot
         /\ s = call[1].targets[Len(call[1].targets)].slot
         /\ last'.slot = s /\ last'.out = "True"
         /\ \A o \in AllSlots \ {s} : attrs'[o] = attrs[o]]_vars

\* a call over two targets in different slots has patched both, and the
\* third slot holds what it held when the call was made
C18_Witness ==
  /\ pc[1] = "returned"
  /\ call[1].results = <<"True", "True">>
  /\ call[1].targets[1].slot # call[1].targets[2].slot
  /\ \A s \in Slots :
       (attrs[s] # call[1].entry[s])
         <=> s \in {call[1].targets[1].slot, call[1].targets[2].slot}


(***************************************************************************)
(* C19: a reader that does not take the lock sees, in every slot, either   *)
(* the complete chain from before an operation or the complete chain after *)
(* it.  Every step that changes what a slot holds is therefore the step of *)
(* the thread holding the lock that takes the slot from the value the      *)
(* operation read to the value the operation ends with, and it is the      *)
(* operation's last step inside the lock.                                  *)
(***************************************************************************)
C19_AtomicWriteBack ==
  [][\A s \in AllSlots :
       attrs'[s] # attrs[s] =>
         \E t \in Threads :
           /\ lock = t
           /\ call[t].slot = s
           /\ attrs[s] = call[t].attr
           /\ attrs'[s] = Cycle(call[t]).attr
           /\ lock' = NoThread]_vars

(***************************************************************************)
(* C20: every call finishes and the lock is released on every exit path.   *)
(* A thread inside the with block always has a body that reaches its end   *)
(* or raises, and the lock is held only by a thread inside the with block. *)
(***************************************************************************)
C20_EveryCallFinishes ==
  /\ \A t \in Threads : pc[t] \in {"patch", "tag"} => Finishes(call[t])
  /\ \A t \in Threads : lock = t => pc[t] \in {"patch", "tag"}

====
